---------------------------- MODULE Spec2Model ----------------------------
(***************************************************************************)
(* Front end of the compiler: the recursive-descent parser with panic-mode *)
(* recovery (parser.go), the type checker and the struct-constructor pass  *)
(* (semantic.go).                                                          *)
(*                                                                         *)
(* The parser is a state machine whose control points are the statements   *)
(* of Parse, fnDeclaration, fnCall, parseArgs and parseArg.  The token     *)
(* slice is an input: its length is fixed at construction and the token at *)
(* a position is drawn when the cursor first reaches it.                   *)
(***************************************************************************)
EXTENDS Integers, Sequences, FiniteSets, TLC

VARIABLES
    \* ---- Parser (struct Parser, and the locals of its methods) ----
    ntokens,     \* len(p.tokens)
    pos,         \* p.pos, 0-based
    tok,         \* p.tokens[p.pos]
    errs,        \* p.errs
    discard,     \* p.discard
    symtab,      \* p.symtab
    root,        \* Parse: root.stats
    pc,          \* the statement the parser is at
    name,        \* fnDeclaration: name
    fnCalls,     \* fnDeclaration: fnCalls
    callTok,     \* fnCall: the token need(lex.Identifier) returned
    args,        \* parseArgs: n
    recovered,   \* onUnexpectedEof: r, the value recover() returned
    propagated,  \* onUnexpectedEof: panic(r) re-raised to Parse's caller
    retErrs,     \* Parse: the result errs
    retRoot,     \* Parse: the result root (its stats)
    \* ---- Type checking (semantic.go) ----
    fn,          \* var fn *FunctionType: "nil" or the name of its descriptor
    decl,        \* the top-level declaration handed to typeCheck
    tcErrs,      \* the errors typeCheck returned
    tcState,     \* "ready", then "checked", or "panicked" when typeCheck panicked
    \* ---- Struct constructors (generateStructConstructors under walk) ----
    rootStmts,   \* root.stmts
    rootScope,   \* root.symtab
    toVisit,     \* walk: the nodes still to be visited, in visit order
    genErrs,     \* walk: errs
    genState,    \* "walking", then "done" when walk has returned
    \* ---- walk (semantic.go), one activation per stack frame ----
    wStart,      \* the tree walk was called on
    wRoot,       \* root, as the visits have left it
    wBad,        \* visit: the nodes it returns an error for
    wStack,      \* the activations of walk, innermost last
    wVisited,    \* the nodes visit has been called on, in order
    wRet,        \* the errs the outermost walk returned
    wState       \* "walking", then "done"

parserVars == <<ntokens, pos, tok, errs, discard, symtab, root, pc, name, fnCalls,
                callTok, args, recovered, propagated, retErrs, retRoot>>

checkVars == <<fn, decl, tcErrs, tcState>>

structVars == <<rootStmts, rootScope, toVisit, genErrs, genState>>

walkVars == <<wStart, wRoot, wBad, wStack, wVisited, wRet, wState>>

vars == <<parserVars, checkVars, structVars, walkVars>>

-----------------------------------------------------------------------------
(* Bounds *)

\* Longest token slice handed to NewParser.
MaxTokens == 13

-----------------------------------------------------------------------------
(* Tokens (lex.Token: Kind and Val; File, Line and Pos are not modelled) *)

Tk(k, v) == [kind |-> k, val |-> v]

TokEOF == Tk("EOF", "")

\* The tokens a position other than the last can hold.
InnerTokens ==
    { Tk("Fn", "fn"), Tk("Identifier", "f"), Tk("Identifier", "println"),
      Tk("LParen", "("), Tk("RParen", ")"), Tk("LBrace", "{"), Tk("RBrace", "}"),
      Tk("Comma", ","), Tk("Integer", "1"), Tk("Integer", "99999999999999999999"),
      Tk("String", "s"), TokEOF }

\* The slice ends with the end-of-stream marker.
TokenAt(i) == IF i = ntokens - 1 THEN {TokEOF} ELSE InnerTokens

NoTok == Tk("none", "")

-----------------------------------------------------------------------------
(* Symbols and the symbol table.  A symbol's id stands for its address.     *)

Sym(k, n, i) == [kind |-> k, name |-> n, id |-> i]

NoSym == Sym("nil", "", 0)

NewSymtab == {}

\* Define inserts unless the name already exists at this level.
Define(st, s) ==
    IF \E x \in st : x.kind = s.kind /\ x.name = s.name THEN st ELSE st \cup {s}

Found(st, k, n) == \E x \in st : x.kind = k /\ x.name = n

Resolve(st, k, n) ==
    IF Found(st, k, n) THEN CHOOSE x \in st : x.kind = k /\ x.name = n ELSE NoSym

\* The address of a freshly allocated symbol.
NewId(st) == Cardinality(st) + 1

-----------------------------------------------------------------------------
(* AST nodes built by the parser *)

Nd(o, v, st, s) == [op |-> o, val |-> v, stats |-> st, sym |-> s]

NilNode == Nd("nil", "", <<>>, NoSym)

\* main.go stdlib(): the predefined declarations.
Stdlib ==
    << Nd("opFuncDcl", "println", <<>>, Sym("symFnDecl", "println", 1)),
       Nd("opFuncDcl", "printDate", <<>>, Sym("symFnDecl", "printDate", 2)) >>

RECURSIVE DefineAll(_, _)
DefineAll(st, nodes) ==
    IF nodes = <<>> THEN st
    ELSE DefineAll(Define(st, Head(nodes).sym), Tail(nodes))

\* NewParser: the symbol table holds the predefined symbols.
NewParserSymtab(extra) == DefineAll(NewSymtab, extra)

-----------------------------------------------------------------------------
(* Errors *)

SyntaxErr(expected) == [kind |-> "syntax", what |-> expected]

RedeclaredErr(t) == [kind |-> "redeclared", what |-> <<t.val>>]

IsSyntaxErr(e) == e.kind = "syntax"

-----------------------------------------------------------------------------
(* Parser helpers *)

\* is(kinds...)
Is(kinds) == tok.kind \in kinds

\* isNot(kinds...)
IsNot(kinds) == ~Is(kinds)

\* syntaxError that records the error but leaves discard mode off.
SyntaxErrorNoDiscard(e, d, expected) ==
    IF ~d
    THEN [errs |-> Append(e, SyntaxErr(expected)), discard |-> d]
    ELSE [errs |-> e, discard |-> d]

\* syntaxError(expected...): the new (errs, discard).
SyntaxError(e, d, expected) ==
    IF ~d
    THEN [errs |-> Append(e, SyntaxErr(expected)), discard |-> TRUE]
    ELSE [errs |-> e, discard |-> d]

\* next(): it panics when no token follows the current one.
NextPanics(p, n) == p + 1 >= n

\* onUnexpectedEof that recovers without handing p.errs to the result.
OnUnexpectedEofNoErrs(r, e) == [errs |-> <<>>, repanic |-> r # "errUnexpectedEof"]

\* onUnexpectedEof: what Parse's result errs becomes, and whether the panic
\* is raised again.
OnUnexpectedEof(r, e) == [errs |-> e, repanic |-> r # "errUnexpectedEof"]

\* strconv.ParseInt(val, 10, 64) fails on a literal outside 64 bits.
ParseIntFails(v) == v = "99999999999999999999"

\* A panic unwinds to the handler Parse deferred: the handler runs, no other
\* statement of the parser does.
Unwind(r) ==
    /\ pc' = "done"
    /\ recovered' = r
    /\ retErrs' = OnUnexpectedEof(r, errs').errs
    /\ propagated' = OnUnexpectedEof(r, errs').repanic
    /\ retRoot' = root
    /\ UNCHANGED <<ntokens, pos, tok, symtab, root, name, fnCalls, callTok, args>>

\* p.next() followed by the statement at `to`; `upd` are the assignments the
\* statement makes to the locals once next() has returned.
NextThen(to, upd) ==
    IF NextPanics(pos, ntokens)
    THEN Unwind("errUnexpectedEof")
    ELSE /\ pos' = pos + 1
         /\ tok' \in TokenAt(pos + 1)
         /\ pc' = to
         /\ upd
         /\ UNCHANGED <<ntokens, symtab, root, recovered, propagated, retErrs, retRoot>>

-----------------------------------------------------------------------------
(* need(k): the call sites, the kind each needs and the statement after it *)

NeedSites ==
    { "Parse_needEOF", "fd_fn", "fd_name", "fd_lparen", "fd_rparen", "fd_lbrace",
      "fd_rbrace", "fc_name", "pa_lparen", "pa_rparen" }

NeedKind(site) ==
    CASE site = "Parse_needEOF" -> "EOF"
      [] site = "fd_fn"         -> "Fn"
      [] site = "fd_name"       -> "Identifier"
      [] site = "fd_lparen"     -> "LParen"
      [] site = "fd_rparen"     -> "RParen"
      [] site = "fd_lbrace"     -> "LBrace"
      [] site = "fd_rbrace"     -> "RBrace"
      [] site = "fc_name"       -> "Identifier"
      [] site = "pa_lparen"     -> "LParen"
      [] site = "pa_rparen"     -> "RParen"

AfterNeed(site) ==
    CASE site = "Parse_needEOF" -> "Parse_return"
      [] site = "fd_fn"         -> "fd_name"
      [] site = "fd_name"       -> "fd_lparen"
      [] site = "fd_lparen"     -> "fd_rparen"
      [] site = "fd_rparen"     -> "fd_lbrace"
      [] site = "fd_lbrace"     -> "fd_loop"
      [] site = "fd_rbrace"     -> "fd_node"
      [] site = "fc_name"       -> "pa_lparen"
      [] site = "pa_lparen"     -> "pa_first"
      [] site = "pa_rparen"     -> "fc_node"

\* need: one turn of the loop on a token of another kind.
NeedSkip ==
    /\ UNCHANGED <<checkVars, structVars, walkVars>>
    /\ pc \in NeedSites
    /\ ~Is({NeedKind(pc)})
    /\ errs' = SyntaxError(errs, discard, <<NeedKind(pc)>>).errs
    /\ discard' = SyntaxError(errs, discard, <<NeedKind(pc)>>).discard
    /\ NextThen(pc, UNCHANGED <<name, fnCalls, callTok, args>>)

\* need: the token is of the kind needed; it is returned to the caller.
NeedOk ==
    /\ UNCHANGED <<checkVars, structVars, walkVars>>
    /\ pc \in NeedSites
    /\ Is({NeedKind(pc)})
    /\ discard' = FALSE
    /\ errs' = errs
    /\ NextThen(AfterNeed(pc),
                /\ name' = IF pc = "fd_name" THEN tok ELSE name
                /\ fnCalls' = IF pc = "fd_lbrace" THEN <<>> ELSE fnCalls
                /\ callTok' = IF pc = "fc_name" THEN tok ELSE callTok
                /\ args' = IF pc = "pa_lparen" THEN <<>> ELSE args)

-----------------------------------------------------------------------------
(* Parse *)

\* Parse: the loop meets fn.
ParseFn ==
    /\ UNCHANGED <<checkVars, structVars, walkVars>>
    /\ pc = "Parse_loop"
    /\ IsNot({"EOF"})
    /\ Is({"Fn"})
    /\ pc' = "fd_fn"
    /\ UNCHANGED <<ntokens, pos, tok, errs, discard, symtab, root, name, fnCalls,
                   callTok, args, recovered, propagated, retErrs, retRoot>>

\* Parse: the loop meets anything else.
ParseSkip ==
    /\ UNCHANGED <<checkVars, structVars, walkVars>>
    /\ pc = "Parse_loop"
    /\ IsNot({"EOF"})
    /\ ~Is({"Fn"})
    /\ errs' = SyntaxError(errs, discard, <<"Fn", "EOF">>).errs
    /\ discard' = SyntaxError(errs, discard, <<"Fn", "EOF">>).discard
    /\ NextThen("Parse_loop", UNCHANGED <<name, fnCalls, callTok, args>>)

\* Parse: the loop ends.
ParseEof ==
    /\ UNCHANGED <<checkVars, structVars, walkVars>>
    /\ pc = "Parse_loop"
    /\ ~IsNot({"EOF"})
    /\ pc' = "Parse_needEOF"
    /\ UNCHANGED <<ntokens, pos, tok, errs, discard, symtab, root, name, fnCalls,
                   callTok, args, recovered, propagated, retErrs, retRoot>>

\* Parse: return p.errs, root.
ParseReturn ==
    /\ UNCHANGED <<checkVars, structVars, walkVars>>
    /\ pc = "Parse_return"
    /\ pc' = "done"
    /\ retErrs' = errs
    /\ retRoot' = root
    /\ UNCHANGED <<ntokens, pos, tok, errs, discard, symtab, root, name, fnCalls,
                   callTok, args, recovered, propagated>>

-----------------------------------------------------------------------------
(* fnDeclaration *)

\* The body loop meets an identifier: fnCall.
FnDeclCall ==
    /\ UNCHANGED <<checkVars, structVars, walkVars>>
    /\ pc = "fd_loop"
    /\ IsNot({"RBrace"})
    /\ Is({"Identifier"})
    /\ pc' = "fc_name"
    /\ UNCHANGED <<ntokens, pos, tok, errs, discard, symtab, root, name, fnCalls,
                   callTok, args, recovered, propagated, retErrs, retRoot>>

\* The body loop meets anything else.
FnDeclSkip ==
    /\ UNCHANGED <<checkVars, structVars, walkVars>>
    /\ pc = "fd_loop"
    /\ IsNot({"RBrace"})
    /\ ~Is({"Identifier"})
    /\ errs' = SyntaxError(errs, discard, <<"Identifier", "RBrace">>).errs
    /\ discard' = SyntaxError(errs, discard, <<"Identifier", "RBrace">>).discard
    /\ NextThen("fd_loop", UNCHANGED <<name, fnCalls, callTok, args>>)

\* The body loop ends.
FnDeclEnd ==
    /\ UNCHANGED <<checkVars, structVars, walkVars>>
    /\ pc = "fd_loop"
    /\ ~IsNot({"RBrace"})
    /\ pc' = "fd_rbrace"
    /\ UNCHANGED <<ntokens, pos, tok, errs, discard, symtab, root, name, fnCalls,
                   callTok, args, recovered, propagated, retErrs, retRoot>>

\* fnDclNode that gives a redeclaration a symbol of its own.
FnDclNodeOwnSym(token, calls, e, st) ==
    [node |-> Nd("opFuncDcl", token.val, calls, Sym("symFnDecl", token.val, NewId(st))),
     errs |-> IF Found(st, "symFnDecl", token.val)
              THEN Append(e, RedeclaredErr(token)) ELSE e,
     symtab |-> Define(st, Sym("symFnDecl", token.val, NewId(st)))]

\* fnDclNode(token, fnCalls): the new (node, errs, symtab).
FnDclNode(token, calls, e, st) ==
    IF Found(st, "symFnDecl", token.val)
    THEN [node |-> Nd("opFuncDcl", token.val, calls, Resolve(st, "symFnDecl", token.val)),
          errs |-> Append(e, RedeclaredErr(token)),
          symtab |-> st]
    ELSE [node |-> Nd("opFuncDcl", token.val, calls, Sym("symFnDecl", token.val, NewId(st))),
          errs |-> e,
          symtab |-> Define(st, Sym("symFnDecl", token.val, NewId(st)))]

\* return p.fnDclNode(name, fnCalls), and Parse's root.Add of it.
FnDeclNode ==
    /\ UNCHANGED <<checkVars, structVars, walkVars>>
    /\ pc = "fd_node"
    /\ errs' = FnDclNode(name, fnCalls, errs, symtab).errs
    /\ symtab' = FnDclNode(name, fnCalls, errs, symtab).symtab
    /\ root' = Append(root, FnDclNode(name, fnCalls, errs, symtab).node)
    /\ pc' = "Parse_loop"
    /\ UNCHANGED <<ntokens, pos, tok, discard, name, fnCalls, callTok, args,
                   recovered, propagated, retErrs, retRoot>>

-----------------------------------------------------------------------------
(* fnCall, parseArgs, parseArg *)

\* parseArgs: is there a first argument?
ParseArgsFirst ==
    /\ UNCHANGED <<checkVars, structVars, walkVars>>
    /\ pc = "pa_first"
    /\ pc' = IF IsNot({"EOF", "RParen"}) THEN "pa_arg" ELSE "pa_rparen"
    /\ UNCHANGED <<ntokens, pos, tok, errs, discard, symtab, root, name, fnCalls,
                   callTok, args, recovered, propagated, retErrs, retRoot>>

\* match(lex.Comma) succeeds.
MatchComma ==
    /\ UNCHANGED <<checkVars, structVars, walkVars>>
    /\ pc = "pa_comma"
    /\ Is({"Comma"})
    /\ errs' = errs
    /\ IF NextPanics(pos, ntokens)
       THEN discard' = discard
       ELSE discard' = FALSE
    /\ NextThen("pa_arg", UNCHANGED <<name, fnCalls, callTok, args>>)

\* match(lex.Comma) fails: the argument list is over.
NoComma ==
    /\ UNCHANGED <<checkVars, structVars, walkVars>>
    /\ pc = "pa_comma"
    /\ ~Is({"Comma"})
    /\ pc' = "pa_rparen"
    /\ UNCHANGED <<ntokens, pos, tok, errs, discard, symtab, root, name, fnCalls,
                   callTok, args, recovered, propagated, retErrs, retRoot>>

\* The symbol kind and node operator of a literal token.
LitSymKind(k) == IF k = "Integer" THEN "symIntegerLit" ELSE "symStrLit"

LitOp(k) == IF k = "Integer" THEN "opIntegerLit" ELSE "opStrLit"

\* parseArg on a literal: the token is taken, then interned.
ParseArgLit ==
    /\ UNCHANGED <<checkVars, structVars, walkVars>>
    /\ pc = "pa_arg"
    /\ Is({"Integer", "String"})
    /\ errs' = errs
    /\ discard' = discard
    /\ IF NextPanics(pos, ntokens)
       THEN Unwind("errUnexpectedEof")
       ELSE IF /\ tok.kind = "Integer"
               /\ ~Found(symtab, LitSymKind(tok.kind), tok.val)
               /\ ParseIntFails(tok.val)
            THEN \* panic(err): next() has already moved the cursor
                 /\ pc' = "done"
                 /\ recovered' = "parseIntErr"
                 /\ retErrs' = OnUnexpectedEof("parseIntErr", errs).errs
                 /\ propagated' = OnUnexpectedEof("parseIntErr", errs).repanic
                 /\ retRoot' = root
                 /\ pos' = pos + 1
                 /\ tok' \in TokenAt(pos + 1)
                 /\ UNCHANGED <<ntokens, symtab, root, name, fnCalls, callTok, args>>
            ELSE /\ pos' = pos + 1
                 /\ tok' \in TokenAt(pos + 1)
                 /\ pc' = "pa_comma"
                 /\ symtab' = IF Found(symtab, LitSymKind(tok.kind), tok.val)
                              THEN symtab
                              ELSE Define(symtab,
                                          Sym(LitSymKind(tok.kind), tok.val, NewId(symtab)))
                 /\ args' = Append(args,
                                   Nd(LitOp(tok.kind), tok.val, <<>>,
                                      IF Found(symtab, LitSymKind(tok.kind), tok.val)
                                      THEN Resolve(symtab, LitSymKind(tok.kind), tok.val)
                                      ELSE Sym(LitSymKind(tok.kind), tok.val, NewId(symtab))))
                 /\ UNCHANGED <<ntokens, root, name, fnCalls, callTok,
                                recovered, propagated, retErrs, retRoot>>

\* parseArg on anything else: a syntax error, the token is skipped, nil.
ParseArgDefault ==
    /\ UNCHANGED <<checkVars, structVars, walkVars>>
    /\ pc = "pa_arg"
    /\ ~Is({"Integer", "String"})
    /\ errs' = SyntaxError(errs, discard, <<"Integer", "String">>).errs
    /\ discard' = SyntaxError(errs, discard, <<"Integer", "String">>).discard
    /\ NextThen("pa_comma",
                /\ args' = Append(args, NilNode)
                /\ UNCHANGED <<name, fnCalls, callTok>>)

\* fnCallNode(token, args): the call node.
FnCallNode(token, a, st) == Nd("opFuncCall", token.val, a, Resolve(st, "symFnDecl", token.val))

\* fnCall returns; fnDeclaration appends the node to fnCalls.
FnCallDone ==
    /\ UNCHANGED <<checkVars, structVars, walkVars>>
    /\ pc = "fc_node"
    /\ fnCalls' = Append(fnCalls, FnCallNode(callTok, args, symtab))
    /\ pc' = "fd_loop"
    /\ UNCHANGED <<ntokens, pos, tok, errs, discard, symtab, root, name,
                   callTok, args, recovered, propagated, retErrs, retRoot>>

-----------------------------------------------------------------------------
(* The parser's specification *)

\* The type checker has not been started.
CheckIdle ==
    /\ fn = "nil"
    /\ decl = [op |-> "nil"]
    /\ tcErrs = <<>>
    /\ tcState = "idle"

\* The struct-constructor pass has not been started.
StructIdle ==
    /\ rootStmts = <<>>
    /\ rootScope = {}
    /\ toVisit = <<>>
    /\ genErrs = <<>>
    /\ genState = "idle"

\* walk has not been called.
WalkIdle ==
    /\ wStart = [op |-> "nil"]
    /\ wRoot = [op |-> "nil"]
    /\ wBad = {}
    /\ wStack = <<>>
    /\ wVisited = <<>>
    /\ wRet = <<>>
    /\ wState = "idle"

ParserInit ==
    /\ StructIdle
    /\ WalkIdle
    /\ ntokens \in 1..MaxTokens
    /\ pos = 0
    /\ tok \in TokenAt(0)
    /\ errs = <<>>
    /\ discard = FALSE
    /\ symtab = NewParserSymtab(Stdlib)
    /\ root = Stdlib
    /\ pc = "Parse_loop"
    /\ name = NoTok
    /\ fnCalls = <<>>
    /\ callTok = NoTok
    /\ args = <<>>
    /\ recovered = "nil"
    /\ propagated = FALSE
    /\ retErrs = <<>>
    /\ retRoot = <<>>
    /\ CheckIdle

ParserNext ==
    \/ ParseFn
    \/ ParseSkip
    \/ ParseEof
    \/ ParseReturn
    \/ NeedSkip
    \/ NeedOk
    \/ FnDeclCall
    \/ FnDeclSkip
    \/ FnDeclEnd
    \/ FnDeclNode
    \/ ParseArgsFirst
    \/ MatchComma
    \/ NoComma
    \/ ParseArgLit
    \/ ParseArgDefault
    \/ FnCallDone

SpecParser == ParserInit /\ [][ParserNext]_vars

-----------------------------------------------------------------------------
(* Properties of the parser *)

Last(s) == s[Len(s)]

\* A step appends one syntax error.
AppendsSyntaxErr == Len(errs') = Len(errs) + 1 /\ IsSyntaxErr(Last(errs'))

\* The current token is of a kind need() or match() expects here.
AtExpectedByNeedOrMatch ==
    \/ pc \in NeedSites /\ tok.kind = NeedKind(pc)
    \/ pc = "pa_comma" /\ tok.kind = "Comma"

\* The current token is one the statement at pc reports and skips.
AtUnexpected ==
    \/ pc \in NeedSites /\ tok.kind # NeedKind(pc)
    \/ pc = "Parse_loop" /\ tok.kind \notin {"Fn", "EOF"}
    \/ pc = "fd_loop" /\ tok.kind \notin {"Identifier", "RBrace"}
    \/ pc = "pa_arg" /\ tok.kind \notin {"Integer", "String"}

\* C1: panic-mode recovery.  A syntax error is appended only outside discard
\* mode and turns discard mode on; discard mode is left only by need() or
\* match() meeting a token of the expected kind (consuming it, unless the
\* input ends there); and every skipped unexpected token is skipped in
\* discard mode, its error being appended at that step only if none was
\* since the last such token.  So a run of skipped tokens gives one error.
C1_PanicMode ==
    /\ [][AppendsSyntaxErr => ~discard /\ discard']_vars
    /\ [][discard /\ ~discard' =>
            AtExpectedByNeedOrMatch /\ (pos' = pos + 1 \/ pc' = "done")]_vars
    /\ [][AtUnexpected /\ (pos' = pos + 1 \/ pc' = "done") =>
            /\ discard'
            /\ IF discard THEN errs' = errs ELSE AppendsSyntaxErr]_vars

\* Three unexpected tokens were skipped at top level, with one error.
C1_Witness ==
    /\ pc = "Parse_loop"
    /\ pos = 3
    /\ discard
    /\ Len(errs) = 1
    /\ IsSyntaxErr(errs[1])

\* C2: end-of-input abort.  The step at which next() runs out of tokens goes
\* straight to the end of Parse: no token is consumed, no symbol or node is
\* added, at most the syntax error of the statement that called next() was
\* appended before it; the panic is not raised again, Parse's results are the
\* root and exactly p.errs, and nothing of the parser runs afterwards.
C2_EofAbort ==
    /\ [][recovered = "nil" /\ recovered' = "errUnexpectedEof" =>
            /\ pc' = "done"
            /\ pos' = pos
            /\ symtab' = symtab
            /\ root' = root
            /\ errs' = errs \/ (AppendsSyntaxErr /\ SubSeq(errs', 1, Len(errs)) = errs)
            /\ retErrs' = errs'
            /\ retRoot' = root
            /\ ~propagated']_vars
    /\ [][pc = "done" => FALSE]_vars
    /\ [](recovered = "errUnexpectedEof" =>
            pc = "done" /\ retErrs = errs /\ retRoot = root /\ ~propagated)

\* The input ended inside the first call of the first function, after a
\* syntax error.
C2_Witness ==
    /\ pc = "done"
    /\ recovered = "errUnexpectedEof"
    /\ callTok # NoTok
    /\ fnCalls = <<>>
    /\ root = Stdlib
    /\ Len(retErrs) >= 1

\* C3: function redeclaration.  When fnDeclaration completes a declaration
\* whose name is already a function symbol, one Redeclared error is appended,
\* the table is unchanged and the node carries the symbol already declared;
\* otherwise no error is appended and the table gains one Function symbol of
\* that name, which the node carries.
C3_Redeclared ==
    [][pc = "fd_node" =>
        /\ Len(root') = Len(root) + 1
        /\ Last(root').op = "opFuncDcl"
        /\ Last(root').val = name.val
        /\ IF \E x \in symtab : x.kind = "symFnDecl" /\ x.name = name.val
           THEN /\ errs' = Append(errs, RedeclaredErr(name))
                /\ symtab' = symtab
                /\ Last(root').sym \in symtab
                /\ Last(root').sym.kind = "symFnDecl"
                /\ Last(root').sym.name = name.val
           ELSE /\ errs' = errs
                /\ symtab \subseteq symtab'
                /\ symtab' \ symtab = {Last(root').sym}
                /\ Last(root').sym.kind = "symFnDecl"
                /\ Last(root').sym.name = name.val
                /\ \A x \in symtab : x.id # Last(root').sym.id]_vars

\* A user function was declared twice, and a built-in was redeclared.
C3_Witness ==
    /\ \E i \in 1..Len(errs) : errs[i] = RedeclaredErr(Tk("Identifier", "f"))
    /\ Cardinality({x \in symtab : x.kind = "symFnDecl"}) = 3
    /\ Len(root) = 4

C3_WitnessBuiltin ==
    \E i \in 1..Len(errs) : errs[i] = RedeclaredErr(Tk("Identifier", "println"))

\* The parser with its steps taken one after the other until Parse has ended.
SpecParserFair == SpecParser /\ WF_vars(ParserNext)

\* The order of the statements that follow each other without a call of
\* next(): the end of a declaration or call, then the loop test, then the
\* statement the test selects.
Rank(p) ==
    CASE p \in {"fd_node", "fc_node"} -> 3
      [] p \in {"Parse_loop", "fd_loop", "pa_first", "pa_comma"} -> 2
      [] OTHER -> 1

\* The current-token read p.tokens[p.pos] is in range.
CursorInRange == 0 <= pos /\ pos <= ntokens - 1

\* A step other than the last one of Parse moves the cursor by one, or leaves
\* it and goes on to a later statement: no loop test is reached twice at the
\* same position.
LoopsAdvance ==
    [][\/ pc' = "done"
       \/ pos' = pos + 1
       \/ pos' = pos /\ Rank(pc') < Rank(pc)]_vars

\* C15: parser termination and cursor safety.  For every token sequence
\* ending with EOF, Parse ends, by its return or by the end-of-input abort
\* its handler absorbs, every turn of the loops of Parse, fnDeclaration,
\* parseArgs and need moving the cursor or aborting; and the cursor is
\* always within 0 .. len(tokens) - 1.
C15_TerminatesCursorInRange ==
    /\ []CursorInRange
    /\ LoopsAdvance
    /\ <>(pc = "done")
    /\ [](pc = "done" => recovered \in {"nil", "errUnexpectedEof"} /\ ~propagated)

-----------------------------------------------------------------------------
(* Types (Type, FunctionType, StructType): a kind, and for Function and     *)
(* Struct the name of the descriptor, for Array the element kind.           *)

Ty(k, n, e) == [kind |-> k, name |-> n, elem |-> e]

NoType == Ty("none", "", "")

intType == Ty("Integer", "", "")

stringType == Ty("String", "", "")

boolType == Ty("Boolean", "", "")

byteType == Ty("Byte", "", "")

nothingType == Ty("Nothing", "", "")

arrayType(e) == Ty("Array", "", e)

structType(n) == Ty("Struct", n, "")

functionType(n) == Ty("Function", n, "")

\* Type.Is(kind)
TypeIs(t, k) == t.kind = k

\* FunctionType descriptors of the functions in scope.
FnDesc(a, v, c, r) == [ArgCount |-> a, isVariadic |-> v, isConstructor |-> c, ret |-> r]

\* Type.AsFunction()
AsFunction(t) ==
    CASE t.name = "two"     -> FnDesc(2, FALSE, FALSE, intType)
      [] t.name = "println" -> FnDesc(1, TRUE, FALSE, nothingType)
      [] t.name = "str"     -> FnDesc(1, FALSE, FALSE, stringType)
      [] t.name = "fb"      -> FnDesc(0, FALSE, FALSE, boolType)
      [] t.name = "fi"      -> FnDesc(1, FALSE, FALSE, intType)

\* Symbol{Name, Addr, Type}
Symbol(n, a, t) == [Name |-> n, Addr |-> a, Type |-> t]

NilSymbol == Symbol("nil", 0, NoType)

\* Type.AsStruct(): the fields of struct point, in declaration order.
AsStruct(t) ==
    << Symbol("x", 0, intType), Symbol("y", 0, intType), Symbol("name", 0, stringType) >>

\* StructType.Offset(name): the field's index, 0 when there is none.
FieldIndex(fields, n) ==
    IF \E i \in 1..Len(fields) : fields[i].Name = n
    THEN CHOOSE i \in 1..Len(fields) : fields[i].Name = n
    ELSE 0

\* The byte offset of the field at an index.
FieldOffset(i) == (i - 1) * 8

-----------------------------------------------------------------------------
(* Scopes of the program under check: the root scope holds the functions,   *)
(* the function's scope its variables.                                      *)

ScopeSyms(scope) ==
    IF scope = "root"
    THEN { Symbol("two", 0, functionType("two")),
           Symbol("println", 0, functionType("println")),
           Symbol("str", 0, functionType("str")),
           Symbol("fb", 0, functionType("fb")),
           Symbol("fi", 0, functionType("fi")) }
    ELSE { Symbol("x", 0, intType), Symbol("s", 0, stringType),
           Symbol("b", 0, boolType), Symbol("arr", 0, arrayType("Integer")),
           Symbol("p", 0, structType("point")) }

RECURSIVE ScopeResolve(_, _)
\* SymTab.Resolve(name): this level, then the enclosing ones.
ScopeResolve(scope, n) ==
    IF \E s \in ScopeSyms(scope) : s.Name = n
    THEN CHOOSE s \in ScopeSyms(scope) : s.Name = n
    ELSE IF scope = "root" THEN NilSymbol ELSE ScopeResolve("root", n)

-----------------------------------------------------------------------------
(* AST nodes of the checker (Node: token, left, right, stmts, params, op,   *)
(* sym, typ, symtab)                                                        *)

Nil == [op |-> "nil"]

Node(o, v, l, r, ss, ps, s, sc) ==
    [op |-> o, val |-> v, left |-> l, right |-> r, stmts |-> ss, params |-> ps,
     sym |-> s, typ |-> NoType, symtab |-> sc]

\* Node.hasType()
hasType(n) == n.typ # NoType

-----------------------------------------------------------------------------
(* Semantic errors *)

SemErr(k, at, vals) == [kind |-> k, at |-> at, what |-> vals]

errMismatchedTypes(at, a, b) == SemErr("MismatchedTypes", at, <<a, b>>)

errInvalidOperatorType(at, t, o) == SemErr("InvalidOperatorType", at, <<t, o>>)

errUnknownVar(at) == SemErr("UnknownVariable", at, <<>>)

errUndefined(at) == SemErr("Undefined", at, <<>>)

errNotFunc(at) == SemErr("NotAFunction", at, <<>>)

errTooFewArgs(at) == SemErr("TooFewArgs", at, <<>>)

errTooManyArgs(at) == SemErr("TooManyArgs", at, <<>>)

errNotStruct(at) == SemErr("NotAStruct", at, <<>>)

errStructHasNoField(at, s) == SemErr("NoSuchField", at, <<s>>)

errInvalidDotSelection(at) == SemErr("InvalidMemberAccess", at, <<>>)

errNonIntegerIndex(at, k) == SemErr("NonIntegerIndex", at, <<k>>)

-----------------------------------------------------------------------------
(* operatorTypes and OperatorTypes.isValid *)

BinaryOps == {"opAnd", "opOr", "opAdd", "opMul", "opMin", "opDiv"}

CompareOps == {"opGt", "opLt", "opEq"}

operatorTypes(o) ==
    CASE o = "opAdd" -> {"Integer", "String", "Array"}
      [] o = "opMin" -> {"Integer"}
      [] o = "opMul" -> {"Integer"}
      [] o = "opDiv" -> {"Integer"}
      [] o = "opOr"  -> {"Boolean"}
      [] o = "opAnd" -> {"Boolean"}
      [] OTHER       -> {}

isValid(o, tk) == tk \in operatorTypes(o)

-----------------------------------------------------------------------------
(* typeCheck.  The result is the node as typeCheck leaves it, the errors it *)
(* returns, and whether it panicked (a nil dereference or an explicit       *)
(* panic): a panic ends the whole check.                                    *)

Ok(n, e) == [n |-> n, errs |-> e, panic |-> FALSE]

Panicked(n, e) == [n |-> n, errs |-> e, panic |-> TRUE]

RECURSIVE typeCheck(_, _)
RECURSIVE typeCheckEach(_, _)

\* for _, stmt := range nodes { errs = append(errs, typeCheck(stmt)...) }
typeCheckEach(nodes, f) ==
    IF nodes = <<>> THEN [ns |-> <<>>, errs |-> <<>>, panic |-> FALSE]
    ELSE LET h == typeCheck(Head(nodes), f)
         IN  IF h.panic THEN [ns |-> nodes, errs |-> h.errs, panic |-> TRUE]
             ELSE LET t == typeCheckEach(Tail(nodes), f)
                  IN  [ns |-> <<h.n>> \o t.ns, errs |-> h.errs \o t.errs, panic |-> t.panic]

\* case opIf, opElseIf
checkIf(n, f) ==
    LET l == typeCheck(n.left, f)
        n1 == [n EXCEPT !.left = l.n]
    IN  IF l.panic THEN Panicked(n, l.errs)
        ELSE IF ~hasType(l.n) THEN Ok(n1, l.errs)
        ELSE IF ~TypeIs(l.n.typ, "Boolean")
        THEN Ok(n1, Append(l.errs, errMismatchedTypes(l.n.val, l.n.typ.kind, boolType.kind)))
        ELSE LET b == typeCheckEach(n.stmts, f)
                 n2 == [n1 EXCEPT !.stmts = b.ns]
             IN  IF b.panic THEN Panicked(n, l.errs \o b.errs)
                 ELSE IF n.right = Nil THEN Ok(n2, l.errs \o b.errs)
                 ELSE LET r == typeCheck(n.right, f)
                      IN  IF r.panic THEN Panicked(n, l.errs \o b.errs \o r.errs)
                          ELSE Ok([n2 EXCEPT !.right = r.n], l.errs \o b.errs \o r.errs)

\* case opElse
checkElse(n, f) ==
    LET b == typeCheckEach(n.stmts, f)
    IN  IF b.panic THEN Panicked(n, b.errs)
        ELSE Ok([n EXCEPT !.stmts = b.ns], b.errs)

\* case opReturn; f is the package variable fn.
checkReturn(n, f) ==
    IF n.left = Nil THEN Ok([n EXCEPT !.typ = nothingType], <<>>)
    ELSE LET l == typeCheck(n.left, f)
             n1 == [n EXCEPT !.left = l.n]
         IN  IF l.panic THEN Panicked(n, l.errs)
             ELSE IF ~hasType(l.n) THEN Ok(n1, l.errs)
             ELSE IF f = "nil" THEN Panicked(n1, l.errs)
             ELSE IF ~TypeIs(AsFunction(functionType(f)).ret, l.n.typ.kind)
             THEN Ok(n1, Append(l.errs, errMismatchedTypes(l.n.val, l.n.typ.kind,
                                          AsFunction(functionType(f)).ret.kind)))
             ELSE Ok([n1 EXCEPT !.typ = l.n.typ], l.errs)

\* case opAnd, opOr, opAdd, opMul, opMin, opDiv
checkBinary(n, f) ==
    LET l == typeCheck(n.left, f)
    IN  IF l.panic THEN Panicked(n, l.errs)
        ELSE LET r == typeCheck(n.right, f)
                 n1 == [n EXCEPT !.left = l.n, !.right = r.n]
                 e == l.errs \o r.errs
             IN  IF r.panic THEN Panicked(n, e)
                 ELSE IF ~hasType(l.n) \/ ~hasType(r.n) THEN Ok(n1, e)
                 ELSE IF ~isValid(n.op, l.n.typ.kind)
                 THEN Ok(n1, Append(e, errInvalidOperatorType(l.n.val, l.n.typ.kind, n.val)))
                 ELSE IF ~isValid(n.op, r.n.typ.kind)
                 THEN Ok(n1, Append(e, errInvalidOperatorType(r.n.val, r.n.typ.kind, n.val)))
                 ELSE IF l.n.typ.kind # r.n.typ.kind
                 THEN Ok([n1 EXCEPT !.typ = l.n.typ],
                         Append(e, errMismatchedTypes(l.n.val, l.n.typ.kind, r.n.typ.kind)))
                 ELSE Ok([n1 EXCEPT !.typ = l.n.typ], e)

\* case opNot
checkNot(n, f) ==
    LET l == typeCheck(n.left, f)
        n1 == [n EXCEPT !.left = l.n]
    IN  IF l.panic THEN Panicked(n, l.errs)
        ELSE IF ~hasType(l.n) THEN Ok(n1, l.errs)
        ELSE IF ~TypeIs(l.n.typ, "Boolean")
        THEN Ok(n1, Append(l.errs, errMismatchedTypes(l.n.val, l.n.typ.kind, boolType.kind)))
        ELSE Ok([n1 EXCEPT !.typ = l.n.typ], l.errs)

\* case opLit
checkLit(n) ==
    IF n.sym = NilSymbol THEN Panicked(n, <<>>)
    ELSE Ok([n EXCEPT !.typ = n.sym.Type], <<>>)

\* case opIdentifier
checkIdentifier(n) ==
    IF n.sym = NilSymbol
    THEN LET sym == ScopeResolve(n.symtab, n.val)
         IN  IF sym = NilSymbol THEN Ok(n, <<errUnknownVar(n.val)>>)
             ELSE Ok([n EXCEPT !.sym = sym, !.typ = sym.Type], <<>>)
    ELSE Ok([n EXCEPT !.typ = n.sym.Type], <<>>)

\* case opFuncCall
checkFuncCall(n, f) ==
    LET s == ScopeResolve(n.symtab, n.val)
    IN  IF s = NilSymbol THEN Ok(n, <<errUndefined(n.val)>>)
        ELSE IF ~TypeIs(s.Type, "Function") THEN Ok(n, <<errNotFunc(n.val)>>)
        ELSE IF Len(n.stmts) < AsFunction(s.Type).ArgCount
        THEN Ok(n, <<errTooFewArgs(n.val)>>)
        ELSE IF Len(n.stmts) > AsFunction(s.Type).ArgCount /\ ~AsFunction(s.Type).isVariadic
        THEN Ok(n, <<errTooManyArgs(n.val)>>)
        ELSE LET a == typeCheckEach(n.stmts, f)
             IN  IF a.panic THEN Panicked(n, a.errs)
                 ELSE Ok([n EXCEPT !.stmts = a.ns, !.sym = s, !.typ = AsFunction(s.Type).ret],
                         a.errs)

\* case opGt, opLt, opEq
checkCompare(n, f) ==
    LET l == typeCheck(n.left, f)
    IN  IF l.panic THEN Panicked(n, l.errs)
        ELSE LET r == typeCheck(n.right, f)
                 n1 == [n EXCEPT !.left = l.n, !.right = r.n]
                 e == l.errs \o r.errs
             IN  IF r.panic THEN Panicked(n, e)
                 ELSE IF ~hasType(l.n) \/ ~hasType(r.n) THEN Ok(n1, e)
                 ELSE IF l.n.typ.kind # r.n.typ.kind
                 THEN Ok(n1, Append(e, errMismatchedTypes(l.n.val, l.n.typ.kind, r.n.typ.kind)))
                 ELSE Ok([n1 EXCEPT !.typ = boolType], e)

\* case opFuncDcl
checkFuncDcl(n, f) ==
    LET p == typeCheckEach(n.params, f)
    IN  IF p.panic THEN Panicked(n, p.errs)
        ELSE LET b == typeCheckEach(n.stmts, f)
             IN  IF b.panic THEN Panicked(n, p.errs \o b.errs)
                 ELSE IF n.sym = NilSymbol THEN Panicked(n, p.errs \o b.errs)
                 ELSE Ok([n EXCEPT !.params = p.ns, !.stmts = b.ns, !.typ = n.sym.Type],
                         p.errs \o b.errs)

\* case opDot, a function call on the right: the node is rewritten into the
\* call and checked again.
dotRewrite(n, left) ==
    [n EXCEPT !.op = "opFuncCall", !.val = n.right.val, !.symtab = n.right.symtab,
              !.stmts = <<left>> \o n.right.stmts, !.left = Nil, !.right = Nil]

\* case opDot, an identifier on the right.
checkDotField(n, l) ==
    LET left == l.n
        right == n.right
        n1 == [n EXCEPT !.left = left]
    IN  IF left.sym = NilSymbol THEN Panicked(n1, l.errs)
        ELSE IF TypeIs(left.sym.Type, "String") /\ right.val = "length"
        THEN LET rsym == Symbol("length", 0, intType)
             IN  Ok([n1 EXCEPT !.right = [right EXCEPT !.sym = rsym, !.typ = rsym.Type],
                               !.typ = rsym.Type],
                    l.errs)
        ELSE IF ~TypeIs(left.sym.Type, "Struct")
        THEN Ok(n1, Append(l.errs, errNotStruct(left.val)))
        ELSE LET strct == AsStruct(left.sym.Type)
                 i == FieldIndex(strct, right.val)
             IN  IF i = 0
                 THEN Ok(n1, Append(l.errs, errStructHasNoField(right.val, left.sym.Type.name)))
                 ELSE LET sym == [strct[i] EXCEPT !.Addr = FieldOffset(i)]
                      IN  Ok([n1 EXCEPT !.right = [right EXCEPT !.sym = sym, !.typ = sym.Type],
                                        !.sym = sym, !.typ = sym.Type],
                             l.errs)

\* case opDot
checkDot(n, f) ==
    LET l == typeCheck(n.left, f)
    IN  IF l.panic THEN Panicked(n, l.errs)
        ELSE IF ~hasType(l.n) THEN Ok([n EXCEPT !.left = l.n], l.errs)
        ELSE IF n.right.op = "opFuncCall"
        THEN LET c == typeCheck(dotRewrite(n, l.n), f)
             IN  [n |-> c.n, errs |-> l.errs \o c.errs, panic |-> c.panic]
        ELSE IF n.right.op = "opIdentifier" THEN checkDotField(n, l)
        ELSE Ok([n EXCEPT !.left = l.n], Append(l.errs, errInvalidDotSelection(n.right.val)))

\* case opArray
checkArray(n, f) ==
    LET l == typeCheck(n.left, f)
    IN  IF l.panic THEN Panicked(n, l.errs)
        ELSE LET r == typeCheck(n.right, f)
                 n1 == [n EXCEPT !.left = l.n, !.right = r.n]
                 e == l.errs \o r.errs
             IN  IF r.panic THEN Panicked(n, e)
                 ELSE IF ~hasType(l.n) \/ ~hasType(r.n) THEN Ok(n1, e)
                 ELSE IF ~TypeIs(r.n.typ, "Integer")
                 THEN Ok(n1, Append(e, errNonIntegerIndex(r.n.val, r.n.typ.kind)))
                 ELSE IF TypeIs(l.n.typ, "String") THEN Ok([n1 EXCEPT !.typ = byteType], e)
                 ELSE Ok([n1 EXCEPT !.typ = l.n.typ], e)

\* typeCheck(n), with f the value of the package variable fn.
typeCheck(n, f) ==
    CASE n.op \in {"opIf", "opElseIf"} -> checkIf(n, f)
      [] n.op = "opElse"               -> checkElse(n, f)
      [] n.op = "opReturn"             -> checkReturn(n, f)
      [] n.op \in BinaryOps            -> checkBinary(n, f)
      [] n.op = "opNot"                -> checkNot(n, f)
      [] n.op = "opLit"                -> checkLit(n)
      [] n.op = "opIdentifier"         -> checkIdentifier(n)
      [] n.op = "opFuncCall"           -> checkFuncCall(n, f)
      [] n.op \in CompareOps           -> checkCompare(n, f)
      [] n.op = "opFuncDcl"            -> checkFuncDcl(n, f)
      [] n.op = "opDot"                -> checkDot(n, f)
      [] n.op = "opArray"              -> checkArray(n, f)
      [] n.op = "opError"              -> Ok(n, <<>>)
      [] OTHER                         -> Panicked(n, <<>>)


-----------------------------------------------------------------------------
(* The programs handed to the checker *)

\* Longest argument list of a call.
MaxArgs == 3

\* Longest body of an if, else-if or else.
MaxBody == 2

SeqsUpTo(S, n) == UNION { [1..k -> S] : k \in 0..n }

LitNode(v, t) == Node("opLit", v, Nil, Nil, <<>>, <<>>, Symbol(v, 0, t), "fn")

IdentNode(v) == Node("opIdentifier", v, Nil, Nil, <<>>, <<>>, NilSymbol, "fn")

CallNode(v, as) == Node("opFuncCall", v, Nil, Nil, as, <<>>, NilSymbol, "fn")

BinNode(o, l, r) == Node(o, o, l, r, <<>>, <<>>, NilSymbol, "fn")

NotNode(l) == Node("opNot", "not", l, Nil, <<>>, <<>>, NilSymbol, "fn")

DotNode(l, r) == Node("opDot", ".", l, r, <<>>, <<>>, NilSymbol, "fn")

ArrayNode(l, r) == Node("opArray", "[", l, r, <<>>, <<>>, NilSymbol, "fn")

ReturnNode(l) == Node("opReturn", "return", l, Nil, <<>>, <<>>, NilSymbol, "fn")

IfNode(o, c, body, r) == Node(o, "if", c, r, body, <<>>, NilSymbol, "fn")

ElseNode(body) == Node("opElse", "else", Nil, Nil, body, <<>>, NilSymbol, "fn")

ParamNode(v, t) == Node("opIdentifier", v, Nil, Nil, <<>>, <<>>, Symbol(v, 0, t), "fn")

FuncDclNode(v, ps, body) ==
    Node("opFuncDcl", v, Nil, Nil, body, ps, Symbol(v, 0, functionType(v)), "fn")

litI == LitNode("1", intType)

litS == LitNode("a", stringType)

Atoms ==
    { litI, litS, IdentNode("x"), IdentNode("s"), IdentNode("b"), IdentNode("arr"),
      IdentNode("p"), IdentNode("undef") }

ArgAtoms == { litI, litS, IdentNode("undef") }

Calls ==
    { CallNode(f, as) : f \in {"two", "println", "str", "x", "nofn"},
                        as \in SeqsUpTo(ArgAtoms, MaxArgs) }

\* Receivers of a member access, indexed values: some compound.
Receivers ==
    Atoms \cup
    { BinNode("opAdd", litS, litS),
      CallNode("str", <<litI>>),
      CallNode("str", <<IdentNode("undef")>>),
      CallNode("two", <<IdentNode("undef"), litI>>),
      DotNode(IdentNode("s"), IdentNode("length")),
      DotNode(IdentNode("p"), IdentNode("name")),
      DotNode(IdentNode("s"), CallNode("str", <<>>)),
      ArrayNode(IdentNode("arr"), litI),
      ArrayNode(IdentNode("s"), litI) }

DotRights ==
    { IdentNode("length"), IdentNode("x"), IdentNode("nosuch"), litI } \cup
    { CallNode(f, as) : f \in {"two", "println", "str", "nofn"},
                        as \in SeqsUpTo(ArgAtoms, 1) }

Dots == { DotNode(l, r) : l \in Receivers, r \in DotRights }

Bins ==
    { BinNode(o, l, r) : o \in BinaryOps, l \in Atoms, r \in Atoms } \cup
    { BinNode(o, l, r) : o \in {"opAdd", "opAnd"},
                         l \in { BinNode("opAdd", litI, litS), BinNode("opAdd", litI, litI),
                                 BinNode("opMul", litS, litI) },
                         r \in Atoms }

Cmps == { BinNode(o, l, r) : o \in CompareOps, l \in Atoms, r \in Atoms }

Nots == { NotNode(l) : l \in Atoms }

Arrays == { ArrayNode(l, r) : l \in Receivers, r \in Atoms }

Exprs == Atoms \cup Calls \cup Dots \cup Bins \cup Cmps \cup Nots \cup Arrays

Returns == { ReturnNode(Nil) } \cup { ReturnNode(e) : e \in Atoms \cup Cmps }

\* Statements of a body: a call that checks, and one to an undefined name.
BodyStmts == { CallNode("println", <<litS>>), CallNode("nofn", <<>>) }

Bodies == SeqsUpTo(BodyStmts, MaxBody)

Conds == { IdentNode("b"), litI, IdentNode("undef"), BinNode("opLt", litI, litI) }

Elses == { Nil } \cup { ElseNode(b) : b \in Bodies }

Chains ==
    Elses \cup
    { IfNode("opElseIf", c, b, r) : c \in {IdentNode("b"), litI}, b \in Bodies, r \in Elses }

Ifs == { IfNode("opIf", c, b, r) : c \in Conds, b \in Bodies, r \in Chains }

Stmts == Exprs \cup Returns \cup Ifs

\* A function returning Boolean and one, with a parameter, returning Integer.
Decls ==
    { FuncDclNode("fb", <<>>, <<s>>) : s \in Stmts } \cup
    { FuncDclNode("fi", <<ParamNode("x", intType)>>, <<s>>) : s \in Stmts }

-----------------------------------------------------------------------------
(* The type checker's specification *)

\* The parser is not running.
ParserIdle ==
    /\ ntokens = 1
    /\ pos = 0
    /\ tok = TokEOF
    /\ errs = <<>>
    /\ discard = FALSE
    /\ symtab = NewSymtab
    /\ root = <<>>
    /\ pc = "done"
    /\ name = NoTok
    /\ fnCalls = <<>>
    /\ callTok = NoTok
    /\ args = <<>>
    /\ recovered = "nil"
    /\ propagated = FALSE
    /\ retErrs = <<>>
    /\ retRoot = <<>>

CheckInit ==
    /\ ParserIdle
    /\ StructIdle
    /\ WalkIdle
    /\ fn = "nil"
    /\ decl \in Decls
    /\ tcErrs = <<>>
    /\ tcState = "ready"

\* typeCheck(decl): the declaration is annotated in place and the errors are
\* returned; a panic returns nothing.  No statement assigns fn.
TypeCheckDecl ==
    /\ tcState = "ready"
    /\ LET r == typeCheck(decl, fn)
       IN  IF r.panic
           THEN /\ tcState' = "panicked"
                /\ tcErrs' = <<>>
                /\ decl' = decl
           ELSE /\ tcState' = "checked"
                /\ tcErrs' = r.errs
                /\ decl' = r.n
    /\ fn' = fn
    /\ UNCHANGED <<parserVars, structVars, walkVars>>

CheckNext == TypeCheckDecl

SpecTypeCheck == CheckInit /\ [][CheckNext]_vars

-----------------------------------------------------------------------------
(* Properties of the type checker.  Each is about the step that checks the  *)
(* declaration: decl is the tree before, decl' the tree after.              *)

\* The statement of the declaration's body, before and after the check.
Stmt == decl.stmts[1]

StmtAfter == decl'.stmts[1]

Count(s, P(_)) == Cardinality({ i \in 1..Len(s) : P(s[i]) })

IsArityErr(e) == e.kind \in {"TooFewArgs", "TooManyArgs"}

IsNonIntegerIndex(e) == e.kind = "NonIntegerIndex"

\* Every element of s occurs in t.
AllIn(s, t) == \A i \in 1..Len(s) : \E j \in 1..Len(t) : t[j] = s[i]

\* C4: call arity checking.  A call to a non-variadic function of arity N
\* with fewer (more) than N arguments gives exactly one TooFewArgs
\* (TooManyArgs) error, and every argument supplied is still type-checked:
\* the arguments are left as typeCheck leaves them and their errors are in
\* the list returned.
C4_ArityErrorArgsChecked ==
    [][(/\ tcState = "ready"
        /\ Stmt.op = "opFuncCall"
        /\ Stmt.val \in {"two", "str"}
        /\ Len(Stmt.stmts) # AsFunction(functionType(Stmt.val)).ArgCount)
       =>
       LET N == AsFunction(functionType(Stmt.val)).ArgCount
           a == typeCheckEach(Stmt.stmts, fn)
       IN  /\ tcState' = "checked"
           /\ Count(tcErrs', IsArityErr) = 1
           /\ \E i \in 1..Len(tcErrs') :
                tcErrs'[i] = IF Len(Stmt.stmts) < N THEN errTooFewArgs(Stmt.val)
                             ELSE errTooManyArgs(Stmt.val)
           /\ StmtAfter.stmts = a.ns
           /\ AllIn(a.errs, tcErrs')
           /\ Len(tcErrs') = 1 + Len(a.errs)]_vars

\* C5: return checking against the enclosing function.  Checking F's body,
\* a return whose value receives a type is compared with F's declared return
\* kind: a different kind gives exactly one MismatchedTypes error naming both
\* kinds and no type for the return node, the same kind gives no error and
\* the value's type.
C5_ReturnAgainstEnclosing ==
    [][(/\ tcState = "ready"
        /\ Stmt.op = "opReturn"
        /\ Stmt.left # Nil
        /\ hasType(typeCheck(Stmt.left, fn).n))
       =>
       LET v == typeCheck(Stmt.left, fn)
           ret == AsFunction(decl.sym.Type).ret
       IN  /\ tcState' = "checked"
           /\ IF v.n.typ.kind # ret.kind
              THEN /\ tcErrs' = Append(v.errs,
                                       errMismatchedTypes(v.n.val, v.n.typ.kind, ret.kind))
                   /\ ~hasType(StmtAfter)
              ELSE /\ tcErrs' = v.errs
                   /\ StmtAfter.typ = v.n.typ]_vars

\* C6: method-call desugaring.  A dot node a.call(x1..xn) whose receiver
\* receives a type becomes a function-call node with call's token and scope,
\* arguments [a, x1..xn] and no left or right, and node and errors are those
\* of type-checking the direct call call(a, x1..xn).
C6_DotCallAsDirectCall ==
    [][(/\ tcState = "ready"
        /\ Stmt.op = "opDot"
        /\ Stmt.right.op = "opFuncCall"
        /\ ~typeCheck(Stmt.left, fn).panic
        /\ hasType(typeCheck(Stmt.left, fn).n))
       =>
       LET direct == typeCheck(dotRewrite(Stmt, Stmt.left), fn)
       IN  /\ tcState' = "checked"
           /\ StmtAfter.op = "opFuncCall"
           /\ StmtAfter.val = Stmt.right.val
           /\ StmtAfter.symtab = Stmt.right.symtab
           /\ Len(StmtAfter.stmts) = 1 + Len(Stmt.right.stmts)
           /\ StmtAfter.left = Nil
           /\ StmtAfter.right = Nil
           /\ StmtAfter = direct.n
           /\ tcErrs' = direct.errs]_vars

\* C7: string length member.  For every receiver that type-checks to String,
\* checking receiver.length does not panic, adds no error to the receiver's
\* own, and gives the field node and the dot node type Integer, the field at
\* offset 0.
C7_StringLength ==
    [][(/\ tcState = "ready"
        /\ Stmt.op = "opDot"
        /\ Stmt.right.op = "opIdentifier"
        /\ Stmt.right.val = "length"
        /\ ~typeCheck(Stmt.left, fn).panic
        /\ TypeIs(typeCheck(Stmt.left, fn).n.typ, "String"))
       =>
       /\ tcState' = "checked"
       /\ tcErrs' = typeCheck(Stmt.left, fn).errs
       /\ StmtAfter.typ = intType
       /\ StmtAfter.right.typ = intType
       /\ StmtAfter.right.sym.Addr = 0]_vars

\* The type of the elements of an array type.
ElemType(t) == Ty(t.elem, "", "")

\* C8: array index result type.  With both operands typed and an Integer
\* index the node's type is the byte type on a String and the element type
\* on an Array; with another index there is exactly one NonIntegerIndex
\* error and the node has no type.
C8_IndexResultType ==
    [][(/\ tcState = "ready"
        /\ Stmt.op = "opArray"
        /\ ~typeCheck(Stmt.left, fn).panic
        /\ ~typeCheck(Stmt.right, fn).panic
        /\ hasType(typeCheck(Stmt.left, fn).n)
        /\ hasType(typeCheck(Stmt.right, fn).n))
       =>
       LET l == typeCheck(Stmt.left, fn)
           r == typeCheck(Stmt.right, fn)
       IN  /\ tcState' = "checked"
           /\ IF TypeIs(r.n.typ, "Integer")
              THEN /\ TypeIs(l.n.typ, "String") => StmtAfter.typ = byteType
                   /\ TypeIs(l.n.typ, "Array") => StmtAfter.typ = ElemType(l.n.typ)
                   /\ tcErrs' = l.errs \o r.errs
              ELSE /\ Count(tcErrs', IsNonIntegerIndex) = 1
                   /\ tcErrs' = Append(l.errs \o r.errs,
                                       errNonIntegerIndex(r.n.val, r.n.typ.kind))
                   /\ ~hasType(StmtAfter)]_vars

\* C10: if / else-if checking.  The body and the chained else-if / else are
\* checked whatever the condition's check gave: with a condition of another
\* kind than Boolean there is one MismatchedTypes error for it and every
\* error of the body and of the chained branches is still in the list; the
\* if node itself has no type.
C10_IfBodyAlwaysChecked ==
    [][(/\ tcState = "ready"
        /\ Stmt.op = "opIf"
        /\ hasType(typeCheck(Stmt.left, fn).n)
        /\ ~TypeIs(typeCheck(Stmt.left, fn).n.typ, "Boolean"))
       =>
       LET c == typeCheck(Stmt.left, fn)
           b == typeCheckEach(Stmt.stmts, fn)
           r == IF Stmt.right = Nil THEN Ok(Nil, <<>>) ELSE typeCheck(Stmt.right, fn)
       IN  /\ tcState' = "checked"
           /\ \E i \in 1..Len(tcErrs') :
                tcErrs'[i] = errMismatchedTypes(c.n.val, c.n.typ.kind, "Boolean")
           /\ AllIn(b.errs, tcErrs')
           /\ AllIn(r.errs, tcErrs')
           /\ Len(tcErrs') = Len(c.errs) + 1 + Len(b.errs) + Len(r.errs)
           /\ ~hasType(StmtAfter)]_vars

RECURSIVE LegalKind(_)
\* The kind of an expression every part of which is legal: its names are
\* declared, its calls have a legal arity and its operands are of kinds the
\* operator allows; "bad" otherwise, and for a member access.
LegalKind(n) ==
    CASE n.op = "opLit" -> n.sym.Type.kind
      [] n.op = "opIdentifier" ->
           IF n.sym # NilSymbol THEN n.sym.Type.kind
           ELSE IF ScopeResolve(n.symtab, n.val) = NilSymbol THEN "bad"
           ELSE ScopeResolve(n.symtab, n.val).Type.kind
      [] n.op = "opFuncCall" ->
           LET s == ScopeResolve(n.symtab, n.val)
           IN  IF /\ s # NilSymbol
                  /\ s.Type.kind = "Function"
                  /\ Len(n.stmts) >= AsFunction(s.Type).ArgCount
                  /\ (AsFunction(s.Type).isVariadic
                      \/ Len(n.stmts) = AsFunction(s.Type).ArgCount)
                  /\ \A i \in 1..Len(n.stmts) : LegalKind(n.stmts[i]) # "bad"
               THEN AsFunction(s.Type).ret.kind
               ELSE "bad"
      [] n.op \in BinaryOps ->
           IF /\ LegalKind(n.left) # "bad"
              /\ LegalKind(n.left) = LegalKind(n.right)
              /\ LegalKind(n.left) \in operatorTypes(n.op)
           THEN LegalKind(n.left)
           ELSE "bad"
      [] n.op \in CompareOps ->
           IF LegalKind(n.left) # "bad" /\ LegalKind(n.left) = LegalKind(n.right)
           THEN "Boolean"
           ELSE "bad"
      [] n.op = "opNot" -> IF LegalKind(n.left) = "Boolean" THEN "Boolean" ELSE "bad"
      [] OTHER -> "bad"

RECURSIVE LegalStmt(_, _)
\* A statement of the body of function f every part of which is legal.
LegalStmt(n, f) ==
    CASE n.op = "opReturn" ->
           \/ n.left = Nil
           \/ LegalKind(n.left) = AsFunction(functionType(f)).ret.kind
      [] n.op \in {"opIf", "opElseIf"} ->
           /\ LegalKind(n.left) = "Boolean"
           /\ \A i \in 1..Len(n.stmts) : LegalStmt(n.stmts[i], f)
           /\ n.right = Nil \/ LegalStmt(n.right, f)
      [] n.op = "opElse" -> \A i \in 1..Len(n.stmts) : LegalStmt(n.stmts[i], f)
      [] OTHER -> LegalKind(n) # "bad"

LegalDecl(d) ==
    /\ \A i \in 1..Len(d.params) : LegalKind(d.params[i]) # "bad"
    /\ \A i \in 1..Len(d.stmts) : LegalStmt(d.stmts[i], d.val)

RECURSIVE AllTyped(_)
\* n and every node below it has a type.
AllTyped(n) ==
    \/ n = Nil
    \/ /\ hasType(n)
       /\ AllTyped(n.left)
       /\ AllTyped(n.right)
       /\ \A i \in 1..Len(n.params) : AllTyped(n.params[i])
       /\ \A i \in 1..Len(n.stmts) : AllTyped(n.stmts[i])

\* C11: well-typed programs.  Type-checking a declaration of a program with
\* no struct, no member access, only calls to defined functions with a legal
\* arity and operands of kinds the operators allow returns no error, and
\* afterwards every node of the declaration, if / else-if / else, return and
\* declaration nodes included, has a type.
C11_WellTypedAllTyped ==
    [][(tcState = "ready" /\ LegalDecl(decl))
       =>
       /\ tcState' = "checked"
       /\ tcErrs' = <<>>
       /\ AllTyped(decl')]_vars

\* The errors of the children of n, each child checked by itself: left,
\* right, then the statements; of a member access, the receiver only.
ChildErrs(n) ==
    (IF n.left = Nil THEN <<>> ELSE typeCheck(n.left, fn).errs)
    \o (IF n.right = Nil \/ n.op = "opDot" THEN <<>> ELSE typeCheck(n.right, fn).errs)
    \o typeCheckEach(n.stmts, fn).errs

\* C13: no type on failure.  When typeCheck records an error at a node
\* itself, not inside one of its children, the node has no type on return;
\* in particular a binary arithmetic or boolean operator node whose operands
\* are both legal for the operator but of different kinds gets one
\* MismatchedTypes error and not the left operand's type.
C13_NoTypeOnFailure ==
    [][(/\ tcState = "ready"
        /\ tcState' = "checked"
        /\ ~(Stmt.op = "opDot" /\ Stmt.right.op = "opFuncCall")
        /\ tcErrs' # ChildErrs(Stmt))
       =>
       ~hasType(StmtAfter)]_vars

\* C14: binary operator operand validation.  For a binary arithmetic or
\* boolean operator node whose operands both received a type, each operand's
\* kind is validated against the operator's set by itself: an
\* InvalidOperatorType error for the left operand if its kind is outside the
\* set, then one for the right operand if its kind is outside the set; with
\* both kinds allowed and equal there is no error and the node has the left
\* operand's type.
C14_OperandsValidatedIndependently ==
    [][(/\ tcState = "ready"
        /\ Stmt.op \in BinaryOps
        /\ ~typeCheck(Stmt.left, fn).panic
        /\ ~typeCheck(Stmt.right, fn).panic
        /\ hasType(typeCheck(Stmt.left, fn).n)
        /\ hasType(typeCheck(Stmt.right, fn).n))
       =>
       LET l == typeCheck(Stmt.left, fn).n
           r == typeCheck(Stmt.right, fn).n
           lerr == IF l.typ.kind \in operatorTypes(Stmt.op) THEN <<>>
                   ELSE <<errInvalidOperatorType(l.val, l.typ.kind, Stmt.val)>>
           rerr == IF r.typ.kind \in operatorTypes(Stmt.op) THEN <<>>
                   ELSE <<errInvalidOperatorType(r.val, r.typ.kind, Stmt.val)>>
       IN  /\ tcState' = "checked"
           /\ lerr \o rerr # <<>> => tcErrs' = ChildErrs(Stmt) \o lerr \o rerr
           /\ (lerr \o rerr = <<>> /\ l.typ.kind = r.typ.kind)
              => (tcErrs' = ChildErrs(Stmt) /\ StmtAfter.typ = l.typ)]_vars

-----------------------------------------------------------------------------
(* Struct constructors: walk(root, symtab, root, generateStructConstructors) *)
(*                                                                          *)
(* Names are sequences of characters, so that name[:1], name[1:] and        *)
(* strings.ToUpper are computed.                                            *)

\* Most top-level declarations under the root.
MaxDecls == 2

\* Most fields of a struct declaration.
MaxFields == 2

\* strings.ToUpper on one character of the alphabet p q P Q _ x y f.
UpperChar(c) ==
    CASE c = "p" -> "P"
      [] c = "q" -> "Q"
      [] c = "x" -> "X"
      [] c = "y" -> "Y"
      [] c = "f" -> "F"
      [] OTHER -> c

\* strings.ToUpper
ToUpper(s) == [i \in 1..Len(s) |-> UpperChar(s[i])]

\* &Type{Kind: Struct} of the struct named n.
StructTy(n) == [kind |-> "Struct", name |-> n]

NothingTy == [kind |-> "Nothing", name |-> <<>>]

\* &Symbol{Name, Type: &Type{Kind: Function, Data: &FunctionType{...}}}
FnSymbol(n, argc, ctor, ret, scope) ==
    [Name |-> n,
     Type |-> [kind |-> "Function",
               data |-> [Name |-> n, ArgCount |-> argc, isConstructor |-> ctor,
                         ret |-> ret, args |-> scope]]]

\* SymTab.Define on the root scope: an entry of the same name stays.
DefineSymbol(scope, s) ==
    IF \E t \in scope : t.Name = s.Name THEN scope ELSE scope \cup {s}

\* Node.Add
Add(stmts, n) == Append(stmts, n)

errStructNamingLower(n) == [kind |-> "InvalidStructName", at |-> n]

NoGenErr == [kind |-> "nil", at |-> <<>>]

\* The visitor's result: root.stmts and root.symtab as it leaves them, and
\* the error it returns.
generateStructConstructors(stmts, scope, n) ==
    IF n.op = "opStruct"
    THEN LET structName == n.val
             firstLetter == SubSeq(structName, 1, 1)
         IN  IF ToUpper(firstLetter) = firstLetter
             THEN [stmts |-> stmts, scope |-> scope,
                   err |-> errStructNamingLower(structName)]
             ELSE LET constructorName ==
                          ToUpper(firstLetter) \o SubSeq(structName, 2, Len(structName))
                      fnSym == FnSymbol(constructorName, Len(n.stmts), TRUE,
                                        n.sym.Type, n.symtab)
                  IN  [stmts |-> Add(stmts, Node("opFuncDcl", constructorName, Nil, Nil,
                                                 <<>>, n.stmts, fnSym, n.symtab)),
                       scope |-> DefineSymbol(scope, fnSym),
                       err |-> NoGenErr]
    ELSE [stmts |-> stmts, scope |-> scope, err |-> NoGenErr]

RECURSIVE walkOrder(_)
RECURSIVE walkEach(_)
\* walk over the elements of a params or stmts list that are not nil.
walkEach(ns) ==
    IF ns = <<>> THEN <<>>
    ELSE (IF Head(ns) # Nil THEN walkOrder(Head(ns)) ELSE <<>>) \o walkEach(Tail(ns))

\* walk: the nodes in the order visit is called on them.
walkOrder(n) ==
    (IF n.left # Nil THEN walkOrder(n.left) ELSE <<>>)
    \o (IF n.right # Nil THEN walkOrder(n.right) ELSE <<>>)
    \o walkEach(n.params)
    \o walkEach(n.stmts)
    \o <<n>>

\* ---- Inputs ----

StructNames == { <<"p", "t">>, <<"q">>, <<"P", "t">>, <<"_", "p">> }

FnNames == { <<"P", "t">>, <<"f">> }

FieldNode(c) ==
    Node("opIdentifier", <<c>>, Nil, Nil, <<>>, <<>>,
         [Name |-> <<c>>, Type |-> [kind |-> "Integer", name |-> <<>>]], <<"struct">>)

Fields(k) == SubSeq(<<FieldNode("x"), FieldNode("y"), FieldNode("f")>>, 1, k)

StructNode(n, k) ==
    Node("opStruct", n, Nil, Nil, Fields(k), <<>>,
         [Name |-> n, Type |-> StructTy(n)], <<"struct">> \o n)

FnNode(n) ==
    Node("opFuncDcl", n, Nil, Nil, <<>>, <<>>,
         FnSymbol(n, 0, FALSE, NothingTy, <<"fn">> \o n), <<"fn">> \o n)

TopDecls ==
    { StructNode(n, k) : n \in StructNames, k \in 0..MaxFields }
    \cup { FnNode(n) : n \in FnNames }

RootNode(stmts) ==
    Node("opRoot", <<>>, Nil, Nil, stmts, <<>>, [Name |-> <<>>, Type |-> NothingTy], <<"root">>)

\* The root scope the parser leaves: the declared functions.
RootScopeOf(stmts) ==
    { stmts[i].sym : i \in { j \in 1..Len(stmts) : stmts[j].op = "opFuncDcl" } }

\* ---- The pass ----

GenInit ==
    /\ ParserIdle
    /\ CheckIdle
    /\ WalkIdle
    /\ rootStmts \in SeqsUpTo(TopDecls, MaxDecls)
    /\ rootScope = RootScopeOf(rootStmts)
    /\ toVisit = walkOrder(RootNode(rootStmts))
    /\ genErrs = <<>>
    /\ genState = "walking"

\* walk, lines 424-426: visit the next node and keep its error.
VisitNode ==
    /\ genState = "walking"
    /\ toVisit # <<>>
    /\ LET r == generateStructConstructors(rootStmts, rootScope, Head(toVisit))
       IN  /\ rootStmts' = r.stmts
           /\ rootScope' = r.scope
           /\ genErrs' = IF r.err # NoGenErr THEN Append(genErrs, r.err) ELSE genErrs
    /\ toVisit' = Tail(toVisit)
    /\ genState' = genState
    /\ UNCHANGED <<parserVars, checkVars, walkVars>>

\* walk returns errs.
WalkReturn ==
    /\ genState = "walking"
    /\ toVisit = <<>>
    /\ genState' = "done"
    /\ UNCHANGED <<rootStmts, rootScope, toVisit, genErrs>>
    /\ UNCHANGED <<parserVars, checkVars, walkVars>>

GenNext ==
    \/ VisitNode
    \/ WalkReturn

SpecStructs == GenInit /\ [][GenNext]_vars

-----------------------------------------------------------------------------
(* Properties of the struct-constructor pass *)

IsLowerLetter(c) == c \in {"p", "q", "x", "y", "f"}

\* The struct declaration about to be visited.
Visited == Head(toVisit)

\* C9: struct constructor synthesis.  Visiting a struct declaration whose
\* name begins with a lowercase letter returns no error, leaves in the root
\* scope a Function symbol named by upper-casing the first letter (arity the
\* number of fields, constructor flag set, return type the struct's type,
\* parameter scope the struct's field scope) and appends exactly one
\* function-declaration node for it to the root's children; visiting any
\* other struct declaration returns exactly one InvalidStructName error and
\* changes neither the root scope nor the root's children.
C9_ConstructorSynthesis ==
    [][(/\ genState = "walking"
        /\ toVisit # <<>>
        /\ Visited.op = "opStruct")
       =>
       LET ctor == <<UpperChar(Visited.val[1])>> \o Tail(Visited.val)
       IN  IF IsLowerLetter(Visited.val[1])
           THEN /\ genErrs' = genErrs
                /\ \E s \in rootScope' :
                     /\ s.Name = ctor
                     /\ s.Type.kind = "Function"
                     /\ s.Type.data.ArgCount = Len(Visited.stmts)
                     /\ s.Type.data.isConstructor
                     /\ s.Type.data.ret = Visited.sym.Type
                     /\ s.Type.data.args = Visited.symtab
                     /\ rootStmts'[Len(rootStmts')].sym = s
                /\ Len(rootStmts') = Len(rootStmts) + 1
                /\ SubSeq(rootStmts', 1, Len(rootStmts)) = rootStmts
                /\ rootStmts'[Len(rootStmts')].op = "opFuncDcl"
                /\ rootStmts'[Len(rootStmts')].val = ctor
           ELSE /\ genErrs' = Append(genErrs, errStructNamingLower(Visited.val))
                /\ rootScope' = rootScope
                /\ rootStmts' = rootStmts]_vars

-----------------------------------------------------------------------------
(* walk(root, symtab, root, visit): the recursion is a stack of activations *)
(* and each action is one statement of the innermost one.                   *)

WNode(o, v, l, r, ps, ss) == Node(o, v, l, r, ss, ps, NilSymbol, "root")

WLeaf(v) == WNode("opIdentifier", v, Nil, Nil, <<>>, <<>>)

WStruct(v) == WNode("opStruct", v, Nil, Nil, <<>>, <<>>)

\* The name of the node a visit of the struct declaration v adds to root.
CtorVal(v) == CASE v = "s" -> "S" [] v = "t" -> "T" [] OTHER -> "N"

NoVisitErr == [kind |-> "nil", at |-> ""]

VisitErr(v) == [kind |-> "visit", at |-> v]

\* visit(root, symtab, n): an error for the nodes in bad; otherwise, as
\* generateStructConstructors, a node added to root for a struct declaration.
Visit(rootNode, n, bad) ==
    IF n.val \in bad THEN [root |-> rootNode, err |-> VisitErr(n.val)]
    ELSE IF n.op = "opStruct"
    THEN [root |-> [rootNode EXCEPT !.stmts = Add(@, WLeaf(CtorVal(n.val)))],
          err |-> NoVisitErr]
    ELSE [root |-> rootNode, err |-> NoVisitErr]

\* A new activation walk(n): at the test of n.left, errs empty.
Frame(n) == [n |-> n, ph |-> "left", i |-> 1, list |-> <<>>, errs |-> <<>>]

\* errs = append(errs, walk(...)...) with no error of the callee kept.
AppendErrsDropped(es, more) == es

\* errs = append(errs, walk(...)...)
AppendErrs(es, more) == es \o more

\* walk(root, symtab, child, visit) is called when child is not nil.
Call(stack, child) == IF child # Nil THEN Append(stack, Frame(child)) ELSE stack

Top == wStack[Len(wStack)]

SetTop(f) == [wStack EXCEPT ![Len(wStack)] = f]

\* The node of the innermost activation: the outermost one is on root itself.
TopNode == IF Len(wStack) = 1 THEN wRoot ELSE Top.n

\* ---- Inputs ----

WInner ==
    { WNode("opFuncDcl", "b", l, r, ps, ss) :
        l \in {Nil, WLeaf("d")},
        r \in {Nil, WLeaf("e")},
        ps \in { <<>>, <<Nil, WLeaf("g")>> },
        ss \in { <<>>, <<WLeaf("f")>>, <<WStruct("s"), Nil, WLeaf("f")>>,
                 <<WLeaf("f"), WStruct("s")>> } }

WTrees ==
    { WNode("opRoot", "r", l, r, ps, ss) :
        l \in {Nil, WLeaf("a"), WStruct("t")},
        r \in {Nil, WLeaf("c")},
        ps \in { <<>> },
        ss \in UNION { { <<>>, <<b>>, <<b, WLeaf("h")>> } : b \in WInner } }

WBads == { {}, {"f"}, {"d", "b", "s"}, {"a", "r", "t", "g"} }

\* ---- The walk ----

WalkInit ==
    /\ ParserIdle
    /\ CheckIdle
    /\ StructIdle
    /\ wStart \in WTrees
    /\ wRoot = wStart
    /\ wBad \in WBads
    /\ wStack = <<Frame(wStart)>>
    /\ wVisited = <<>>
    /\ wRet = <<>>
    /\ wState = "walking"

\* if n.left != nil { errs = append(errs, walk(..., n.left, ...)...) }
WalkLeft ==
    /\ wState = "walking"
    /\ Top.ph = "left"
    /\ wStack' = Call(SetTop([Top EXCEPT !.ph = "right"]), TopNode.left)
    /\ UNCHANGED <<wStart, wRoot, wBad, wVisited, wRet, wState>>
    /\ UNCHANGED <<parserVars, checkVars, structVars>>

\* if n.right != nil { ... }; then the range over n.params is evaluated
WalkRight ==
    /\ wState = "walking"
    /\ Top.ph = "right"
    /\ wStack' = Call(SetTop([Top EXCEPT !.ph = "params", !.list = TopNode.params, !.i = 1]),
                      TopNode.right)
    /\ UNCHANGED <<wStart, wRoot, wBad, wVisited, wRet, wState>>
    /\ UNCHANGED <<parserVars, checkVars, structVars>>

\* for _, param := range n.params; after it the range over n.stmts is evaluated
WalkParams ==
    /\ wState = "walking"
    /\ Top.ph = "params"
    /\ IF Top.i > Len(Top.list)
       THEN wStack' = SetTop([Top EXCEPT !.ph = "stmts", !.list = TopNode.stmts, !.i = 1])
       ELSE wStack' = Call(SetTop([Top EXCEPT !.i = @ + 1]), Top.list[Top.i])
    /\ UNCHANGED <<wStart, wRoot, wBad, wVisited, wRet, wState>>
    /\ UNCHANGED <<parserVars, checkVars, structVars>>

\* for _, stat := range n.stmts
WalkStmts ==
    /\ wState = "walking"
    /\ Top.ph = "stmts"
    /\ IF Top.i > Len(Top.list)
       THEN wStack' = SetTop([Top EXCEPT !.ph = "visit"])
       ELSE wStack' = Call(SetTop([Top EXCEPT !.i = @ + 1]), Top.list[Top.i])
    /\ UNCHANGED <<wStart, wRoot, wBad, wVisited, wRet, wState>>
    /\ UNCHANGED <<parserVars, checkVars, structVars>>

\* if err := visit(root, symtab, n); err != nil { errs = append(errs, err) }
\* return: the caller appends the errs returned to its own.
WalkVisit ==
    /\ wState = "walking"
    /\ Top.ph = "visit"
    /\ LET v == Visit(wRoot, TopNode, wBad)
           out == IF v.err # NoVisitErr THEN Append(Top.errs, v.err) ELSE Top.errs
           d == Len(wStack)
       IN  /\ wRoot' = v.root
           /\ wVisited' = Append(wVisited, TopNode.val)
           /\ IF d = 1
              THEN /\ wStack' = <<>>
                   /\ wRet' = out
                   /\ wState' = "done"
              ELSE /\ wStack' = [SubSeq(wStack, 1, d - 1) EXCEPT
                                   ![d - 1].errs = AppendErrs(@, out)]
                   /\ wRet' = wRet
                   /\ wState' = wState
    /\ UNCHANGED <<wStart, wBad>>
    /\ UNCHANGED <<parserVars, checkVars, structVars>>

WalkNext ==
    \/ WalkLeft
    \/ WalkRight
    \/ WalkParams
    \/ WalkStmts
    \/ WalkVisit

SpecWalk == WalkInit /\ [][WalkNext]_vars

-----------------------------------------------------------------------------
(* Properties of walk *)

\* The children of n that are not nil: left, right, params, stmts.
Kids(n) == SelectSeq(<<n.left, n.right>> \o n.params \o n.stmts, LAMBDA c : c # Nil)

RECURSIVE Below(_)
\* n and the nodes reachable from it.
Below(n) == {n} \cup UNION { Below(Kids(n)[k]) : k \in 1..Len(Kids(n)) }

WasVisited(v) == \E i \in 1..Len(wVisited) : wVisited[i] = v

PosOf(v) == CHOOSE i \in 1..Len(wVisited) : wVisited[i] = v

\* C12: tree walk order.  walk visits every node reachable from its start
\* node exactly once, a node after all the nodes below it and the subtrees
\* of its children in the order left, right, params, stmts; an error of one
\* visit prevents no other visit, and the list returned is the errors of
\* the visits in visit order.
C12_WalkOrder ==
    /\ \A i, j \in 1..Len(wVisited) : wVisited[i] = wVisited[j] => i = j
    /\ \A n \in Below(wStart) :
         WasVisited(n.val) =>
           /\ \A k \in 1..Len(Kids(n)) : \A m \in Below(Kids(n)[k]) :
                WasVisited(m.val) /\ PosOf(m.val) < PosOf(n.val)
           /\ \A j, k \in 1..Len(Kids(n)) :
                j < k => \A a \in Below(Kids(n)[j]), b \in Below(Kids(n)[k]) :
                           PosOf(a.val) < PosOf(b.val)
    /\ wState = "done" =>
         /\ \A n \in Below(wStart) : WasVisited(n.val)
         /\ wRet = [i \in 1..Len(SelectSeq(wVisited, LAMBDA v : v \in wBad)) |->
                      VisitErr(SelectSeq(wVisited, LAMBDA v : v \in wBad)[i])]

\* walk has returned from a tree with all four kinds of children, two visits
\* returned an error and visits followed the first of them.
C12_Witness ==
    /\ wState = "done"
    /\ wStart.left # Nil /\ wStart.right # Nil
    /\ Len(wStart.stmts) = 2
    /\ wStart.stmts[1].params # <<>>
    /\ Len(wStart.stmts[1].stmts) = 3
    /\ wBad = {"d", "b", "s"}
    /\ Len(wRet) = 3
    /\ wVisited[Len(wVisited)] = "r"

=============================================================================
